---- MODULE Spec2Model ----
(***************************************************************************)
(* Model of the movie table of src/components/MoviesView.tsx: the          *)
(* filter -> sort -> paginate pipeline (filteredAndSortedMovies,           *)
(* totalPages, paginatedMovies) and the selection / bulk-edit state        *)
(* machine of the MoviesView component (handleToggleAll, handleToggleRow,  *)
(* handleEscape, commitBulkStatusChange, confirmDelete, ...); and of the   *)
(* group-settings modal of src/unnamed/part_000 (handleSortChange,         *)
(* handleSave, handleEsc, ...).                                            *)
(*                                                                         *)
(* Representation.  A string that the code compares or searches (name,     *)
(* searchQuery) is a sequence of character codes, so that toLowerCase,     *)
(* includes and < are computed and not assumed.  Identifiers and statuses  *)
(* are opaque and kept as numbers and strings.  An optional array          *)
(* (channel3DIds?) is <<>> when undefined and <<ids>> when defined; an     *)
(* optional string that the code only tests for truthiness (channel3DId?)  *)
(* is "" when missing.  An optional string that the code compares (note?)   *)
(* is <<>> when undefined and <<text>> when defined, so that a missing      *)
(* note and an empty one differ.  addedAt is the instant in hours that      *)
(* new Date(m.addedAt) denotes.                                            *)
(***************************************************************************)
EXTENDS Integers, Sequences, FiniteSets, TLC

VARIABLES
    movies,             \* prop movies: the record source, owned by the parent
    searchQuery,        \* useState('')
    selectedIds,        \* useState<string[]>([])
    sortConfig,         \* useState({ key: 'addedAt', direction: 'desc' })
    activeBulkMenu,     \* useState<'status' | '3d' | '2d' | null>(null)
    pendingBulkValue,   \* useState<string | null>(null)
    isDeleteModalOpen,  \* useState(false)
    selected3DIds,      \* useState<string[]>([])
    selected2DIds,      \* useState<string[]>([])
    selectedStatuses,   \* useState<string[]>([])
    timeFilter,         \* useState<string[]>([])
    currentPage,        \* useState(1)
    now,                \* the instant new Date() returns when the view is computed
    rowsPerPage,        \* prop settings.rowsPerPage
    isOpen,             \* GroupSettingsModal: prop isOpen, owned by the parent
    existingGroup,      \* GroupSettingsModal: prop existingGroup, <<>> for null
    allChannels,        \* GroupSettingsModal: prop allChannels
    groupName,          \* GroupSettingsModal: useState('') name, of input #groupName
    selectedChannelIds, \* GroupSettingsModal: useState(new Set()), in insertion order
    groupSortConfig,    \* GroupSettingsModal: useState({ key: 'title', direction: 'asc' })
    nameInputRing,      \* GroupSettingsModal: input #groupName carries the red ring
    lastOp,             \* history: the handler that ran last
    before,             \* history: page, menu, pending value and sort before it ran
    arg,                \* history: the value it was handed, if the model records it
    calls               \* history: the prop callbacks that handler invoked, in order

vars == <<movies, searchQuery, selectedIds, sortConfig, activeBulkMenu,
          pendingBulkValue, isDeleteModalOpen, selected3DIds, selected2DIds,
          selectedStatuses, timeFilter, currentPage, now, rowsPerPage,
          isOpen, existingGroup, allChannels, groupName, selectedChannelIds,
          groupSortConfig, nameInputRing,
          lastOp, before, arg, calls>>

\* The state and props of GroupSettingsModal (src/unnamed/part_000).
groupVars == <<isOpen, existingGroup, allChannels, groupName, selectedChannelIds,
               groupSortConfig, nameInputRing>>

\* The state and props of MoviesView (src/components/MoviesView.tsx).
moviesViewVars == <<movies, searchQuery, selectedIds, sortConfig, activeBulkMenu,
                    pendingBulkValue, isDeleteModalOpen, selected3DIds,
                    selected2DIds, selectedStatuses, timeFilter, currentPage,
                    now, rowsPerPage>>

\* JS null for the string-valued states activeBulkMenu and pendingBulkValue.
NULL == "null"

(***************************************************************************)
(* Bounds of the model.                                                    *)
(***************************************************************************)
\* settings.rowsPerPage in the pipeline specification.
RowsPerPage == 2
\* Length of the longest record source the pipeline specification draws.
MaxMovies == 5
\* settings.rowsPerPage in the component specification.
UIRowsPerPage == 1
\* Length of the record source of the component specification.
UIMovies == 2
\* Largest page number the pipeline specification draws.
MaxPage == 4
\* Length of the longest record source the filter specification draws.
FilterMovies_Max == 7
\* Length of the longest allChannels the group-settings specification draws.
MaxChannels == 2

(***************************************************************************)
(* Strings as sequences of character codes.                                *)
(***************************************************************************)
\* String.prototype.toLowerCase on the ASCII letters.
toLowerCase(s) ==
    [i \in 1..Len(s) |-> IF s[i] >= 65 /\ s[i] <= 90 THEN s[i] + 32 ELSE s[i]]

\* String.prototype.includes: needle occurs as a contiguous run of hay.
includes(hay, needle) ==
    \E i \in 0..(Len(hay) - Len(needle)) :
        \A j \in 1..Len(needle) : hay[i + j] = needle[j]

\* a < b on two JS strings: lexicographic by code unit, a proper prefix first.
RECURSIVE StrLess(_, _)
StrLess(a, b) ==
    IF b = <<>> THEN FALSE
    ELSE IF a = <<>> THEN TRUE
    ELSE IF a[1] # b[1] THEN a[1] < b[1]
    ELSE StrLess(Tail(a), Tail(b))

\* Array.prototype.includes
InSeq(s, x) == \E i \in 1..Len(s) : s[i] = x

\* Mutant: Array.prototype.every in place of some.
EveryIn(s, other) == \A i \in 1..Len(s) : InSeq(other, s[i])

\* Array.prototype.some(id => other.includes(id))
SomeIn(s, other) == \E i \in 1..Len(s) : InSeq(other, s[i])

(***************************************************************************)
(* STATUS_OPTIONS and the records.                                         *)
(***************************************************************************)
STATUS_OPTIONS ==
    <<"Playlist", "Download", "Copyright Check", "Visual Copyright",
      "Audio Copyright", "Strike Check", "Done">>

\* Array.prototype.findIndex(opt => opt.id === st): 0-based, -1 when absent.
findIndex(opts, st) ==
    IF InSeq(opts, st)
    THEN (CHOOSE i \in 1..Len(opts) :
              opts[i] = st /\ \A j \in 1..(i - 1) : opts[j] # st) - 1
    ELSE -1

\* Field pools of the records the specifications start from.  The periods
\* differ so that the records differ in every combination of fields.
\* "Ab", "bA", "c", "CaB"
NamePool == << <<65, 98>>, <<98, 65>>, <<99>>, <<67, 97, 66>> >>
StatusPool == <<"Done", "Playlist", "UnknownX">>
Ids3DPool == << << <<"c1">> >>, <<>>, << <<>> >>, << <<"c2", "c1">> >> >>
Id3DPool == <<"", "c1">>
Ids2DPool == << <<>>, << <<"c2">> >>, << <<>> >> >>
Id2DPool == <<"c2", "">>
\* Instants in hours, for now = 1000 (16:00 of day 41): now, yesterday 23:00,
\* 12 days back, 45 days back, 7 days and an hour back, 7 days back to the
\* hour, tomorrow 08:00.
AddedAtPool == <<1000, 983, 712, -80, 831, 832, 1016>>
\* missing, "b", "", "A", "a"
NotePool == << <<>>, << <<98>> >>, << <<>> >>, << <<65>> >>, << <<97>> >> >>

Cyc(pool, i) == pool[((i - 1) % Len(pool)) + 1]

\* The i-th record of the seed data (interface Movie).
SeedMovie(i) ==
    [id |-> i,
     name |-> Cyc(NamePool, i),
     status |-> Cyc(StatusPool, i),
     channel3DIds |-> Cyc(Ids3DPool, i),
     channel3DId |-> Cyc(Id3DPool, i),
     channel2DIds |-> Cyc(Ids2DPool, i),
     channel2DId |-> Cyc(Id2DPool, i),
     addedAt |-> Cyc(AddedAtPool, i),
     note |-> Cyc(NotePool, i)]

SeedMovies(n) == [i \in 1..n |-> SeedMovie(i)]

\* Values the filter controls and the sort headers can be set to.
SearchPool == {<<>>, <<65>>}
Filter3DPool == {<<>>, <<"c3", "c1">>}
Filter2DPool == {<<>>, <<"c2">>}
FilterStatusPool == {<<>>, <<"Playlist", "UnknownX">>}
TimePool == {<<>>, <<"today">>, <<"7d">>, <<"30d">>}
\* The columns rendered with a SortableHeader (lines 270-272).
SortableKeys == {"name", "status", "addedAt"}
\* type SortKey and type SortDirection (lines 11-12).
SortKeys == {"name", "addedAt", "status", "note"}
SortDirections == {"asc", "desc"}
Config(k, d) == [key |-> k, direction |-> d]
NowPool == {1000}

(***************************************************************************)
(* GroupSettingsModal (src/unnamed/part_000): values and pure parts.       *)
(***************************************************************************)
\* type SortKey of the modal (line 13).
GroupSortKeys == {"title", "subscriberCount", "videoCount", "addedAt"}

\* White space String.prototype.trim strips, among the codes the model types.
IsSpace(c) == c \in {9, 10, 13, 32}

\* Mutant: the name is taken as typed.
trim_AsTyped(s) == s

\* String.prototype.trim: white space is stripped from both ends.
RECURSIVE trim(_)
trim(s) ==
    IF s = <<>> THEN s
    ELSE IF IsSpace(s[1]) THEN trim(Tail(s))
    ELSE IF IsSpace(s[Len(s)]) THEN trim(SubSeq(s, 1, Len(s) - 1))
    ELSE s

\* new Set(ids): the distinct ids, each at the place of its first occurrence.
RECURSIVE NewSet(_)
NewSet(ids) ==
    IF ids = <<>> THEN <<>>
    ELSE LET init == NewSet(SubSeq(ids, 1, Len(ids) - 1))
             last == ids[Len(ids)]
         IN  IF \E i \in 1..Len(init) : init[i] = last THEN init
             ELSE Append(init, last)

\* The prop allChannels with n channels; only the id of a channel is read by
\* the handlers.
Channels(n) == [i \in 1..n |-> [id |-> i]]

\* new Date().toISOString(), and a stored createdAt, as the instant denoted.
toISOString(t) == <<"ISO", t>>

\* Values the prop existingGroup takes: <<>> for null, <<group>> for a group
\* to edit.
ExistingGroupPool ==
    {<<>>,
     <<[id |-> "g1", name |-> <<71>>, channelIds |-> <<1>>,
        createdAt |-> toISOString(500)]>>}

\* Values typed into the name input: '', ' ', 'A', ' A ', 'A B '.
GroupNamePool == {<<>>, <<32>>, <<65>>, <<32, 65, 32>>, <<65, 32, 66, 32>>}

\* The updater of handleSortChange (lines 86-89).
handleSortChange(prev, key) ==
    [key |-> key,
     direction |-> IF prev.key = key /\ prev.direction = "desc" THEN "asc" ELSE "desc"]

\* handleToggleChannel (lines 67-75) on the Set in insertion order.
handleToggleChannel(set, channelId) ==
    IF \E i \in 1..Len(set) : set[i] = channelId
    THEN SelectSeq(set, LAMBDA x : x # channelId)
    ELSE Append(set, channelId)

\* handleSelectAll: new Set(allChannels.map(c => c.id)) (line 78).
handleSelectAll(channels) == NewSet([i \in 1..Len(channels) |-> channels[i].id])

\* The object handed to onSave (lines 101-106).
SavedGroup(group, nm, set, t) ==
    [id |-> IF group # <<>> THEN group[1].id ELSE "undefined",
     name |-> trim(nm),
     channelIds |-> set,
     createdAt |-> IF group # <<>> THEN group[1].createdAt ELSE toISOString(t)]

\* The parent's onClose: the modal is no longer open.
ParentOnClose(open) == FALSE

\* The modal before the parent opens it: the useState initial values.
GroupClosed ==
    /\ isOpen = FALSE
    /\ existingGroup = <<>>
    /\ allChannels = Channels(MaxChannels)
    /\ groupName = <<>>
    /\ selectedChannelIds = <<>>
    /\ groupSortConfig = [key |-> "title", direction |-> "asc"]
    /\ nameInputRing = FALSE

(***************************************************************************)
(* The pipeline: filteredAndSortedMovies, totalPages, paginatedMovies.     *)
(***************************************************************************)
\* m.channel3DIds || (m.channel3DId ? [m.channel3DId] : []); an array, even an
\* empty one, is truthy.
movie3DIds(m) ==
    IF m.channel3DIds # <<>> THEN m.channel3DIds[1]
    ELSE IF m.channel3DId # "" THEN <<m.channel3DId>> ELSE <<>>

movie2DIds(m) ==
    IF m.channel2DIds # <<>> THEN m.channel2DIds[1]
    ELSE IF m.channel2DId # "" THEN <<m.channel2DId>> ELSE <<>>

matchesSearch(m, q) == includes(toLowerCase(m.name), toLowerCase(q))

\* Mutant: a record without a 3D channel passes any 3D filter.
matches3D_NoIdsPass(m, sel) ==
    Len(sel) = 0 \/ movie3DIds(m) = <<>> \/ SomeIn(movie3DIds(m), sel)

matches3D(m, sel) == Len(sel) = 0 \/ SomeIn(movie3DIds(m), sel)

matches2D(m, sel) == Len(sel) = 0 \/ SomeIn(movie2DIds(m), sel)

\* Mutant: the status set is consulted even when it is empty.
matchesStatus_NoEmptyPass(m, sel) == InSeq(sel, m.status)

matchesStatus(m, sel) == Len(sel) = 0 \/ InSeq(sel, m.status)

\* Date.prototype.toDateString: the calendar day of an instant in hours.
toDateString(t) == t \div 24

\* Mutant: the window selected first is the one applied.
matchesTime_FirstSelected(m, tf, t) ==
    IF Len(tf) > 0
    THEN IF tf[1] = "today" THEN toDateString(m.addedAt) = toDateString(t)
         ELSE IF tf[1] = "7d" THEN m.addedAt >= t - 7 * 24
         ELSE IF tf[1] = "30d" THEN m.addedAt >= t - 30 * 24
         ELSE TRUE
    ELSE TRUE

\* The if / else-if chain of lines 165-172.
matchesTime(m, tf, t) ==
    IF Len(tf) > 0
    THEN IF InSeq(tf, "today") THEN toDateString(m.addedAt) = toDateString(t)
         ELSE IF InSeq(tf, "7d") THEN m.addedAt >= t - 7 * 24
         ELSE IF InSeq(tf, "30d") THEN m.addedAt >= t - 30 * 24
         ELSE TRUE
    ELSE TRUE

\* Mutant: the time window is left out of the conjunction.
FilterPredicate_NoTime(m, q, s3, s2, st, tf, t) ==
    /\ matchesSearch(m, q)
    /\ matches3D(m, s3)
    /\ matches2D(m, s2)
    /\ matchesStatus(m, st)

\* Mutant: a record passes when it meets any one of the criteria in force.
FilterPredicate_AnyActive(m, q, s3, s2, st, tf, t) ==
    \/ q = <<>> /\ s3 = <<>> /\ s2 = <<>> /\ st = <<>> /\ tf = <<>>
    \/ q # <<>> /\ matchesSearch(m, q)
    \/ s3 # <<>> /\ matches3D(m, s3)
    \/ s2 # <<>> /\ matches2D(m, s2)
    \/ st # <<>> /\ matchesStatus(m, st)
    \/ tf # <<>> /\ matchesTime(m, tf, t)

\* The predicate handed to movies.filter (line 173).
FilterPredicate(m, q, s3, s2, st, tf, t) ==
    /\ matchesSearch(m, q)
    /\ matches3D(m, s3)
    /\ matches2D(m, s2)
    /\ matchesStatus(m, st)
    /\ matchesTime(m, tf, t)

\* Array.prototype.filter
RECURSIVE FilterMovies(_, _, _, _, _, _, _)
FilterMovies(ms, q, s3, s2, st, tf, t) ==
    IF ms = <<>> THEN <<>>
    ELSE LET rest == FilterMovies(Tail(ms), q, s3, s2, st, tf, t)
         IN  IF FilterPredicate(Head(ms), q, s3, s2, st, tf, t)
             THEN <<Head(ms)>> \o rest ELSE rest

\* Mutant: the rank is the raw findIndex, -1 for a status not listed.
StatusRank_NoSentinel(st) == findIndex(STATUS_OPTIONS, st)

\* rankA === -1 ? 999 : rankA
StatusRank(st) ==
    LET rank == findIndex(STATUS_OPTIONS, st)
    IN  IF rank = -1 THEN 999 ELSE rank

\* a[sortConfig.key as keyof Movie] for the string keys: name is always
\* present, note may be undefined.
StringField(m, key) == IF key = "name" THEN <<m.name>> ELSE m.note

\* (valB || ''): undefined and '' both give ''.
OrEmpty(raw) == IF raw = <<>> THEN <<>> ELSE raw[1]

\* typeof valA === 'string' is false for undefined: nothing is converted, and
\* undefined < valB and undefined > valB are both false whatever valB is.
UndefinedCompare(rawB, cfg) == 0

\* The comparator handed to result.sort (lines 176-193): -1, 0 or 1.
Compare(a, b, cfg) ==
    IF cfg.key = "status"
    THEN LET valA == StatusRank(a.status)
             valB == StatusRank(b.status)
         IN  IF valA < valB THEN (IF cfg.direction = "asc" THEN -1 ELSE 1)
             ELSE IF valA > valB THEN (IF cfg.direction = "asc" THEN 1 ELSE -1)
             ELSE 0
    ELSE IF cfg.key = "addedAt"
    THEN IF a.addedAt < b.addedAt THEN (IF cfg.direction = "asc" THEN -1 ELSE 1)
         ELSE IF a.addedAt > b.addedAt THEN (IF cfg.direction = "asc" THEN 1 ELSE -1)
         ELSE 0
    ELSE LET rawA == StringField(a, cfg.key)
             rawB == StringField(b, cfg.key)
         IN  IF rawA # <<>>
             THEN LET valA == toLowerCase(rawA[1])
                      valB == toLowerCase(OrEmpty(rawB))
                  IN  IF StrLess(valA, valB)
                      THEN (IF cfg.direction = "asc" THEN -1 ELSE 1)
                      ELSE IF StrLess(valB, valA)
                      THEN (IF cfg.direction = "asc" THEN 1 ELSE -1)
                      ELSE 0
             ELSE UndefinedCompare(rawB, cfg)

\* Array.prototype.sort is stable: x, the last element, goes behind every
\* element that does not compare above it.
InsertSorted(t, x, cfg) ==
    LET k == Cardinality({i \in 1..Len(t) : Compare(t[i], x, cfg) <= 0})
    IN  SubSeq(t, 1, k) \o <<x>> \o SubSeq(t, k + 1, Len(t))

RECURSIVE SortMovies(_, _)
SortMovies(ms, cfg) ==
    IF Len(ms) <= 1 THEN ms
    ELSE InsertSorted(SortMovies(SubSeq(ms, 1, Len(ms) - 1), cfg), ms[Len(ms)], cfg)

filteredAndSortedMovies ==
    SortMovies(FilterMovies(movies, searchQuery, selected3DIds, selected2DIds,
                            selectedStatuses, timeFilter, now), sortConfig)

\* settings.rowsPerPage || 100
itemsPerPage == IF rowsPerPage = 0 THEN 100 ELSE rowsPerPage

totalItems == Len(filteredAndSortedMovies)

\* Math.ceil(a / b) for a >= 0 and b > 0.
MathCeilDiv(a, b) == (a + b - 1) \div b

totalPages == MathCeilDiv(totalItems, itemsPerPage)

\* Array.prototype.slice(from, to) for from, to >= 0: both ends are clipped
\* to the length, and an empty range gives [].
Slice(s, from, to) ==
    LET lo == IF from > Len(s) THEN Len(s) ELSE from
        hi == IF to > Len(s) THEN Len(s) ELSE to
    IN  IF hi <= lo THEN <<>> ELSE SubSeq(s, lo + 1, hi)

\* Mutant: the end of the slice is taken as inclusive.
PageOf_ShortEnd(view, page) ==
    Slice(view, (page - 1) * itemsPerPage, page * itemsPerPage - 1)

\* filteredAndSortedMovies.slice((currentPage - 1) * itemsPerPage,
\* currentPage * itemsPerPage)
PageOf(view, page) ==
    Slice(view, (page - 1) * itemsPerPage, page * itemsPerPage)

paginatedMovies == PageOf(filteredAndSortedMovies, currentPage)

\* filteredAndSortedMovies.map(m => m.id)
MapIds(ms) == [i \in 1..Len(ms) |-> ms[i].id]

SeqToSet(s) == {s[i] : i \in 1..Len(s)}

IdSet(ms) == SeqToSet(MapIds(ms))

(***************************************************************************)
(* The collaborators the component calls but does not implement.           *)
(***************************************************************************)
\* onBulkUpdateMovieStatus(ids, status), as the parent applies it to the
\* record source: every record named in ids takes the new status.
onBulkUpdateMovieStatus(ms, ids, status) ==
    [i \in 1..Len(ms) |->
        IF InSeq(ids, ms[i].id) THEN [ms[i] EXCEPT !.status = status] ELSE ms[i]]

(***************************************************************************)
(* What the handlers compute.                                              *)
(***************************************************************************)
\* Mutant: the toggle of the group list, whose first direction is 'desc'.
handleSort_DescFirst(prev, key) ==
    [key |-> key,
     direction |-> IF prev.key = key /\ prev.direction = "desc" THEN "asc" ELSE "desc"]

\* handleSort: prev => ({ key, direction: prev.key === key &&
\* prev.direction === 'asc' ? 'desc' : 'asc' })
handleSort(prev, key) ==
    [key |-> key,
     direction |-> IF prev.key = key /\ prev.direction = "asc" THEN "desc" ELSE "asc"]

\* Mutant: select-all takes the rows of the displayed page only.
handleToggleAll_PageOnly(sel, filtered) ==
    IF Len(sel) = Len(filtered) THEN <<>>
    ELSE [i \in 1..Len(paginatedMovies) |-> paginatedMovies[i].id]

\* Mutant: select-all takes every record of the source, filtered or not.
handleToggleAll_Unfiltered(sel, filtered) ==
    IF Len(sel) = Len(filtered) THEN <<>> ELSE [i \in 1..Len(movies) |-> movies[i].id]

\* Mutant: toggle-all selects the filtered records whatever is selected.
handleToggleAll_NeverClears(sel, filtered) == MapIds(filtered)

\* handleToggleAll: selectedIds.length === filteredAndSortedMovies.length
\* ? [] : filteredAndSortedMovies.map(m => m.id)
handleToggleAll(sel, filtered) ==
    IF Len(sel) = Len(filtered) THEN <<>> ELSE MapIds(filtered)

\* prev.filter(item => item !== id)
Without(prev, id) ==
    LET keep == {i \in 1..Len(prev) : prev[i] # id}
        pos(k) == CHOOSE i \in keep : Cardinality({j \in keep : j < i}) = k - 1
    IN  [k \in 1..Cardinality(keep) |-> prev[pos(k)]]

\* Mutant: a click on a selected row leaves it selected.
handleToggleRow_AddOnly(prev, id) ==
    IF InSeq(prev, id) THEN prev ELSE Append(prev, id)

\* handleToggleRow: prev.includes(id) ? prev.filter(item => item !== id)
\* : [...prev, id]
handleToggleRow(prev, id) ==
    IF InSeq(prev, id) THEN Without(prev, id) ELSE Append(prev, id)

\* Mutant: the effect does not run, the page stays.
PageAfterFilterChange_Stays == currentPage

\* The dependency list of the effect of lines 128-130: the page goes back to
\* 1 after a render in which one of these changed.
PageAfterFilterChange == 1

\* Mutant: the trigger opens the menu and never toggles it closed.
StatusTriggerMenu_OpensOnly(menu) == "status"

\* setActiveBulkMenu(activeBulkMenu === 'status' ? null : 'status')
StatusTriggerMenu(menu) == IF menu = "status" THEN NULL ELSE "status"

\* Mutant: the trigger forgets to reset the staged value.
StatusTriggerPending_Kept(pending) == pending

\* setPendingBulkValue(null) of the same onClick (line 318).
StatusTriggerPending(pending) == NULL

\* The derived flag of the header checkbox (line 268).
isAllSelected ==
    Len(filteredAndSortedMovies) > 0 /\ Len(selectedIds) = Len(filteredAndSortedMovies)

(***************************************************************************)
(* Rendering conditions.                                                   *)
(***************************************************************************)
\* The confirmation is a blocking overlay: while it is open the pointer
\* reaches only its own two buttons.  The keydown listener is on window.
Interactive == ~isDeleteModalOpen

\* Mutant: the bar and its menus are rendered whatever the selection is.
BulkBarShown_Always == TRUE

\* selectedIds.length > 0 && <BulkActionBar ...> (line 315)
BulkBarShown == Len(selectedIds) > 0

\* totalItems > itemsPerPage && <pagination controls> (line 305)
PagerShown == totalItems > itemsPerPage

\* What the component reads and never writes: the clock and the settings prop.
env == <<now, rowsPerPage>>

filterVars == <<searchQuery, selected3DIds, selected2DIds, selectedStatuses, timeFilter>>
bulkVars == <<activeBulkMenu, pendingBulkValue>>

\* Every handler leaves the history of what ran.
Ran(op, cs) ==
    /\ lastOp' = op
    /\ before' = [page |-> currentPage, menu |-> activeBulkMenu,
                 pending |-> pendingBulkValue, sort |-> sortConfig]
    /\ arg' = NULL
    /\ calls' = cs

\* The same for a handler that is handed a value.
RanWith(op, cs, value) ==
    /\ lastOp' = op
    /\ before' = [page |-> currentPage, menu |-> activeBulkMenu,
                 pending |-> pendingBulkValue, sort |-> sortConfig]
    /\ arg' = value
    /\ calls' = cs

(***************************************************************************)
(* The filter controls, the sort headers and the pager.                    *)
(***************************************************************************)
setSearchQuery(q) ==
    /\ Interactive
    /\ q # searchQuery
    /\ searchQuery' = q
    /\ currentPage' = PageAfterFilterChange
    /\ Ran("setSearchQuery", <<>>)
    /\ UNCHANGED <<movies, selectedIds, sortConfig, bulkVars, isDeleteModalOpen,
                   selected3DIds, selected2DIds, selectedStatuses, timeFilter, env, groupVars>>

setSelected3DIds(v) ==
    /\ Interactive
    /\ v # selected3DIds
    /\ selected3DIds' = v
    /\ currentPage' = PageAfterFilterChange
    /\ Ran("setSelected3DIds", <<>>)
    /\ UNCHANGED <<movies, selectedIds, sortConfig, bulkVars, isDeleteModalOpen,
                   searchQuery, selected2DIds, selectedStatuses, timeFilter, env, groupVars>>

setSelected2DIds(v) ==
    /\ Interactive
    /\ v # selected2DIds
    /\ selected2DIds' = v
    /\ currentPage' = PageAfterFilterChange
    /\ Ran("setSelected2DIds", <<>>)
    /\ UNCHANGED <<movies, selectedIds, sortConfig, bulkVars, isDeleteModalOpen,
                   searchQuery, selected3DIds, selectedStatuses, timeFilter, env, groupVars>>

\* Mutant: a change of the status filter drops the selected ids whose records
\* the new filter hides.
setSelectedStatuses_Prunes(v) ==
    /\ Interactive
    /\ v # selectedStatuses
    /\ selectedStatuses' = v
    /\ selectedIds' =
           LET kept == IdSet(FilterMovies(movies, searchQuery, selected3DIds,
                                          selected2DIds, v, timeFilter, now))
               keep == {i \in 1..Len(selectedIds) : selectedIds[i] \in kept}
               pos(k) == CHOOSE i \in keep : Cardinality({j \in keep : j < i}) = k - 1
           IN  [k \in 1..Cardinality(keep) |-> selectedIds[pos(k)]]
    /\ currentPage' = PageAfterFilterChange
    /\ Ran("setSelectedStatuses", <<>>)
    /\ UNCHANGED <<movies, sortConfig, bulkVars, isDeleteModalOpen,
                   searchQuery, selected3DIds, selected2DIds, timeFilter, env, groupVars>>

setSelectedStatuses(v) ==
    /\ Interactive
    /\ v # selectedStatuses
    /\ selectedStatuses' = v
    /\ currentPage' = PageAfterFilterChange
    /\ Ran("setSelectedStatuses", <<>>)
    /\ UNCHANGED <<movies, selectedIds, sortConfig, bulkVars, isDeleteModalOpen,
                   searchQuery, selected3DIds, selected2DIds, timeFilter, env, groupVars>>

setTimeFilter(v) ==
    /\ Interactive
    /\ v # timeFilter
    /\ timeFilter' = v
    /\ currentPage' = PageAfterFilterChange
    /\ Ran("setTimeFilter", <<>>)
    /\ UNCHANGED <<movies, selectedIds, sortConfig, bulkVars, isDeleteModalOpen,
                   searchQuery, selected3DIds, selected2DIds, selectedStatuses, env, groupVars>>

\* Mutant: the comparator is run on the record source itself, which the sort
\* reorders in place.
onSort_InPlace(key) ==
    /\ Interactive
    /\ sortConfig' = handleSort(sortConfig, key)
    /\ movies' = SortMovies(movies, sortConfig')
    /\ Ran("handleSort", <<>>)
    /\ UNCHANGED <<selectedIds, bulkVars, isDeleteModalOpen, filterVars,
                   currentPage, env, groupVars>>

\* onSort of a SortableHeader (lines 270-272).
onSort(key) ==
    /\ Interactive
    /\ sortConfig' = handleSort(sortConfig, key)
    /\ Ran("handleSort", <<>>)
    /\ UNCHANGED <<movies, selectedIds, bulkVars, isDeleteModalOpen, filterVars,
                   currentPage, env, groupVars>>

\* Previous: setCurrentPage(prev => Math.max(prev - 1, 1)), disabled on page 1.
PreviousPage ==
    /\ Interactive
    /\ PagerShown
    /\ currentPage # 1
    /\ currentPage' = (IF currentPage - 1 > 1 THEN currentPage - 1 ELSE 1)
    /\ Ran("PreviousPage", <<>>)
    /\ UNCHANGED <<movies, selectedIds, sortConfig, bulkVars, isDeleteModalOpen,
                   filterVars, env, groupVars>>

\* Next: setCurrentPage(prev => Math.min(prev + 1, totalPages)), disabled on
\* the page numbered totalPages.
NextPage ==
    /\ Interactive
    /\ PagerShown
    /\ currentPage # totalPages
    /\ currentPage' = (IF currentPage + 1 < totalPages THEN currentPage + 1 ELSE totalPages)
    /\ Ran("NextPage", <<>>)
    /\ UNCHANGED <<movies, selectedIds, sortConfig, bulkVars, isDeleteModalOpen,
                   filterVars, env, groupVars>>

(***************************************************************************)
(* The pipeline specification: the inputs of the view are drawn from the   *)
(* pools, and the filter controls, sort headers and pager act on them.     *)
(***************************************************************************)
\* The sort configurations handleSort can produce, and the initial one.
SortConfigs ==
    {[key |-> "addedAt", direction |-> "desc"]}
        \cup {[key |-> k, direction |-> d] : k \in SortableKeys, d \in {"asc", "desc"}}

InitView ==
    /\ movies \in {SeedMovies(n) : n \in 0..MaxMovies}
    /\ searchQuery \in SearchPool
    /\ selected3DIds \in Filter3DPool
    /\ selected2DIds \in Filter2DPool
    /\ selectedStatuses \in FilterStatusPool
    /\ timeFilter \in TimePool
    /\ sortConfig \in SortConfigs
    /\ currentPage \in 1..MaxPage
    /\ now \in NowPool
    /\ rowsPerPage = RowsPerPage
    /\ selectedIds = <<>>
    /\ activeBulkMenu = NULL
    /\ pendingBulkValue = NULL
    /\ isDeleteModalOpen = FALSE
    /\ lastOp = "init"
    /\ before = [page |-> currentPage, menu |-> NULL, pending |-> NULL,
                 sort |-> sortConfig]
    /\ arg = NULL
    /\ calls = <<>>
    /\ GroupClosed

NextView ==
    \/ \E q \in SearchPool : setSearchQuery(q)
    \/ \E v \in Filter3DPool : setSelected3DIds(v)
    \/ \E v \in Filter2DPool : setSelected2DIds(v)
    \/ \E v \in FilterStatusPool : setSelectedStatuses(v)
    \/ \E v \in TimePool : setTimeFilter(v)
    \/ \E k \in SortableKeys : onSort(k)
    \/ PreviousPage
    \/ NextPage

SpecView == InitView /\ [][NextView]_vars

(***************************************************************************)
(* The filter specification: the record source and the five criteria are   *)
(* drawn from the pools and the five filter controls act on them.          *)
(***************************************************************************)
InitFilter ==
    /\ movies \in {SeedMovies(n) : n \in 0..FilterMovies_Max}
    /\ searchQuery \in SearchPool
    /\ selected3DIds \in Filter3DPool
    /\ selected2DIds \in Filter2DPool
    /\ selectedStatuses \in FilterStatusPool
    /\ timeFilter \in TimePool
    /\ sortConfig = [key |-> "addedAt", direction |-> "desc"]
    /\ currentPage = 1
    /\ now \in NowPool
    /\ rowsPerPage = RowsPerPage
    /\ selectedIds = <<>>
    /\ activeBulkMenu = NULL
    /\ pendingBulkValue = NULL
    /\ isDeleteModalOpen = FALSE
    /\ lastOp = "init"
    /\ before = [page |-> currentPage, menu |-> NULL, pending |-> NULL,
                 sort |-> sortConfig]
    /\ arg = NULL
    /\ calls = <<>>
    /\ GroupClosed

NextFilter ==
    \/ \E q \in SearchPool : setSearchQuery(q)
    \/ \E v \in Filter3DPool : setSelected3DIds(v)
    \/ \E v \in Filter2DPool : setSelected2DIds(v)
    \/ \E v \in FilterStatusPool : setSelectedStatuses(v)
    \/ \E v \in TimePool : setTimeFilter(v)

SpecFilter == InitFilter /\ [][NextFilter]_vars

(***************************************************************************)
(* The comparator specification: the comparator over its whole domain.     *)
(* sortConfig is typed { key: SortKey; direction: SortDirection } and the  *)
(* comparator has a branch for each SortKey, 'note' among them, though no   *)
(* header of this component hands 'note' to handleSort; so the             *)
(* configuration is drawn from the type, and the headers, the search box   *)
(* and the pager act on the view it gives.                                 *)
(***************************************************************************)
InitCompare ==
    /\ movies \in {SeedMovies(n) : n \in 0..MaxMovies}
    /\ sortConfig \in {Config(k, d) : k \in SortKeys, d \in SortDirections}
    /\ searchQuery \in SearchPool
    /\ selected3DIds = <<>>
    /\ selected2DIds = <<>>
    /\ selectedStatuses = <<>>
    /\ timeFilter = <<>>
    /\ currentPage = 1
    /\ now \in NowPool
    /\ rowsPerPage = RowsPerPage
    /\ selectedIds = <<>>
    /\ activeBulkMenu = NULL
    /\ pendingBulkValue = NULL
    /\ isDeleteModalOpen = FALSE
    /\ lastOp = "init"
    /\ before = [page |-> currentPage, menu |-> NULL, pending |-> NULL,
                 sort |-> sortConfig]
    /\ arg = NULL
    /\ calls = <<>>
    /\ GroupClosed

NextCompare ==
    \/ \E q \in SearchPool : setSearchQuery(q)
    \/ \E k \in SortableKeys : onSort(k)
    \/ PreviousPage
    \/ NextPage

SpecCompare == InitCompare /\ [][NextCompare]_vars

(***************************************************************************)
(* The selection, the bulk menu and the delete confirmation.               *)
(***************************************************************************)
\* Values the bulk status menu can stage: ids of STATUS_OPTIONS (line 325).
PickPool == {"Done", "Playlist"}

\* onChange of the header checkbox (line 268).
onToggleAll ==
    /\ Interactive
    /\ selectedIds' = handleToggleAll(selectedIds, filteredAndSortedMovies)
    /\ Ran("handleToggleAll", <<>>)
    /\ UNCHANGED <<movies, sortConfig, bulkVars, isDeleteModalOpen, filterVars,
                   currentPage, env, groupVars>>

\* onClick / onChange of a rendered row, one of paginatedMovies (lines 283-284).
onToggleRow(id) ==
    /\ Interactive
    /\ InSeq(MapIds(paginatedMovies), id)
    /\ selectedIds' = handleToggleRow(selectedIds, id)
    /\ RanWith("handleToggleRow", <<>>, id)
    /\ UNCHANGED <<movies, sortConfig, bulkVars, isDeleteModalOpen, filterVars,
                   currentPage, env, groupVars>>

\* BulkActionBar onClear: setSelectedIds([]) (line 316).
onClear ==
    /\ Interactive
    /\ BulkBarShown
    /\ selectedIds' = <<>>
    /\ Ran("onClear", <<>>)
    /\ UNCHANGED <<movies, sortConfig, bulkVars, isDeleteModalOpen, filterVars,
                   currentPage, env, groupVars>>

\* BulkActionBar onDelete: setIsDeleteModalOpen(true) (line 316).
onDelete ==
    /\ Interactive
    /\ BulkBarShown
    /\ isDeleteModalOpen' = TRUE
    /\ Ran("onDelete", <<>>)
    /\ UNCHANGED <<movies, selectedIds, sortConfig, bulkVars, filterVars,
                   currentPage, env, groupVars>>

\* onClick of the Status trigger of the bar (line 318).
onStatusTrigger ==
    /\ Interactive
    /\ BulkBarShown
    /\ activeBulkMenu' = StatusTriggerMenu(activeBulkMenu)
    /\ pendingBulkValue' = StatusTriggerPending(pendingBulkValue)
    /\ Ran("onStatusTrigger", <<>>)
    /\ UNCHANGED <<movies, selectedIds, sortConfig, isDeleteModalOpen, filterVars,
                   currentPage, env, groupVars>>

\* Mutant: an option clicked after another one does not replace it.
PickPending_KeepsFirst(pending, value) == IF pending # NULL THEN pending ELSE value

\* setPendingBulkValue(s.id): the state holds one value, the last one set.
PickPending(pending, value) == value

\* onClick of an option of the open status menu: setPendingBulkValue(s.id)
\* (line 326).
onPickStatus(s) ==
    /\ Interactive
    /\ BulkBarShown
    /\ activeBulkMenu = "status"
    /\ pendingBulkValue' = PickPending(pendingBulkValue, s)
    /\ RanWith("onPickStatus", <<>>, s)
    /\ UNCHANGED <<movies, selectedIds, sortConfig, activeBulkMenu,
                   isDeleteModalOpen, filterVars, currentPage, env, groupVars>>

\* Mutant: one call per selected record, as commitBulkChannelAdd makes.
CommitStatusCalls_PerRecord(ids, value) ==
    [i \in 1..Len(ids) |->
        [fn |-> "onBulkUpdateMovieStatus", ids |-> <<ids[i]>>, value |-> value]]

\* onBulkUpdateMovieStatus(selectedIds, pendingBulkValue as MovieStatus): the
\* one call commitBulkStatusChange makes.
CommitStatusCalls(ids, value) ==
    <<[fn |-> "onBulkUpdateMovieStatus", ids |-> ids, value |-> value]>>

\* Mutant: the commit handlers run their body whatever is staged.
Truthy_Always(pending) == TRUE

\* if (pendingBulkValue): null and '' are falsy.
Truthy(pending) == pending # NULL /\ pending # ""

\* Save of the open status menu (line 332) runs commitBulkStatusChange
\* (line 201); the button is disabled while nothing is staged.
commitBulkStatusChange ==
    /\ Interactive
    /\ BulkBarShown
    /\ activeBulkMenu = "status"
    /\ IF Truthy(pendingBulkValue)
       THEN /\ movies' = onBulkUpdateMovieStatus(movies, selectedIds, pendingBulkValue)
            /\ selectedIds' = <<>>
            /\ activeBulkMenu' = NULL
            /\ pendingBulkValue' = NULL
            /\ Ran("commitBulkStatusChange",
                   CommitStatusCalls(selectedIds, pendingBulkValue))
       ELSE /\ Ran("commitBulkStatusChange", <<>>)
            /\ UNCHANGED <<movies, selectedIds, bulkVars>>
    /\ UNCHANGED <<sortConfig, isDeleteModalOpen, filterVars, currentPage, env, groupVars>>

\* Mutant: the staged identifier is appended to the identifiers the record
\* already has on the axis.
WithChannel_Appends(m, type, channelId) ==
    IF type = "3D"
    THEN [m EXCEPT !.channel3DIds = << movie3DIds(m) \o <<channelId>> >>,
                   !.channel3DId = channelId]
    ELSE [m EXCEPT !.channel2DIds = << movie2DIds(m) \o <<channelId>> >>,
                   !.channel2DId = channelId]

\* The record a selected movie is mapped to by the setMovies of lines 205-211:
\* { ...m, channel3DIds: [channelId], channel3DId: channelId } for '3D', the
\* 2D fields for '2D'.
WithChannel(m, type, channelId) ==
    IF type = "3D"
    THEN [m EXCEPT !.channel3DIds = << <<channelId>> >>, !.channel3DId = channelId]
    ELSE [m EXCEPT !.channel2DIds = << <<channelId>> >>, !.channel2DId = channelId]

\* prev.map(m => selectedIds.includes(m.id) ? ... : m)
ChannelAdd(ms, ids, type, channelId) ==
    [i \in 1..Len(ms) |->
        IF InSeq(ids, ms[i].id) THEN WithChannel(ms[i], type, channelId) ELSE ms[i]]

\* The field of the partial record handed to onUpdateMovie (line 212).
ChannelField(type) == IF type = "3D" THEN "channel3DIds" ELSE "channel2DIds"

\* Mutant: one batched call for the whole selection, as the status commit makes.
ChannelAddCalls_Batched(ids, type, channelId) ==
    <<[fn |-> "onUpdateMovie", ids |-> ids,
       value |-> <<ChannelField(type), <<channelId>> >>]>>

\* selectedIds.forEach(movieId => onUpdateMovie(movieId, type === '3D'
\* ? { channel3DIds: [channelId] } : { channel2DIds: [channelId] }))
ChannelAddCalls(ids, type, channelId) ==
    [i \in 1..Len(ids) |->
        [fn |-> "onUpdateMovie", ids |-> <<ids[i]>>,
         value |-> <<ChannelField(type), <<channelId>> >>]]

\* commitBulkChannelAdd (lines 202-215).  The component binds the handler to
\* no control, so it has no rendering condition: the action is the handler
\* called in the state the component is in.
commitBulkChannelAdd(type) ==
    /\ IF Truthy(pendingBulkValue)
       THEN /\ movies' = ChannelAdd(movies, selectedIds, type, pendingBulkValue)
            /\ selectedIds' = <<>>
            /\ activeBulkMenu' = NULL
            /\ pendingBulkValue' = NULL
            /\ RanWith("commitBulkChannelAdd",
                       ChannelAddCalls(selectedIds, type, pendingBulkValue), type)
       ELSE /\ RanWith("commitBulkChannelAdd", <<>>, type)
            /\ UNCHANGED <<movies, selectedIds, bulkVars>>
    /\ UNCHANGED <<sortConfig, isDeleteModalOpen, filterVars, currentPage, env, groupVars>>

\* handleEscape, branch by branch: if (activeBulkMenu) { setActiveBulkMenu(null);
\* setPendingBulkValue(null); } else if (selectedIds.length > 0)
\* { setSelectedIds([]); }
EscapeMenu(menu) == NULL

EscapePending(menu, pending) == IF menu # NULL THEN NULL ELSE pending

\* Mutant: Escape clears the selection whatever is open.
EscapeSelection_Always(menu, sel) == <<>>

EscapeSelection(menu, sel) ==
    IF menu # NULL THEN sel ELSE IF Len(sel) > 0 THEN <<>> ELSE sel

\* The keydown listener on window (lines 132-145), for e.key === 'Escape'.
handleEscape ==
    /\ activeBulkMenu' = EscapeMenu(activeBulkMenu)
    /\ pendingBulkValue' = EscapePending(activeBulkMenu, pendingBulkValue)
    /\ selectedIds' = EscapeSelection(activeBulkMenu, selectedIds)
    /\ Ran("handleEscape", <<>>)
    /\ UNCHANGED <<movies, sortConfig, isDeleteModalOpen, filterVars, currentPage, env, groupVars>>

\* Mutant: cancelling also drops the selection and the open menu.
onCloseDeleteModal_Resets ==
    /\ isDeleteModalOpen
    /\ isDeleteModalOpen' = FALSE
    /\ selectedIds' = <<>>
    /\ activeBulkMenu' = NULL
    /\ pendingBulkValue' = NULL
    /\ Ran("onCloseDeleteModal", <<>>)
    /\ UNCHANGED <<movies, sortConfig, filterVars, currentPage, env, groupVars>>

\* DeleteConfirmModal onClose: setIsDeleteModalOpen(false) (line 340).
onCloseDeleteModal ==
    /\ isDeleteModalOpen
    /\ isDeleteModalOpen' = FALSE
    /\ Ran("onCloseDeleteModal", <<>>)
    /\ UNCHANGED <<movies, selectedIds, sortConfig, bulkVars, filterVars,
                   currentPage, env, groupVars>>

\* Mutant: only the record selected first is removed.
RemoveSelected_FirstOnly(ms, sel) ==
    LET keep == {i \in 1..Len(ms) : sel = <<>> \/ ms[i].id # sel[1]}
        pos(k) == CHOOSE i \in keep : Cardinality({j \in keep : j < i}) = k - 1
    IN  [k \in 1..Cardinality(keep) |-> ms[pos(k)]]

\* movies.filter(m => !selectedIds.includes(m.id))
RemoveSelected(ms, sel) ==
    LET keep == {i \in 1..Len(ms) : ~InSeq(sel, ms[i].id)}
        pos(k) == CHOOSE i \in keep : Cardinality({j \in keep : j < i}) = k - 1
    IN  [k \in 1..Cardinality(keep) |-> ms[pos(k)]]

\* DeleteConfirmModal onConfirm: confirmDelete (lines 224-229).
confirmDelete ==
    /\ isDeleteModalOpen
    /\ movies' = RemoveSelected(movies, selectedIds)
    /\ selectedIds' = <<>>
    /\ isDeleteModalOpen' = FALSE
    /\ Ran("confirmDelete",
           [i \in 1..Len(selectedIds) |->
               [fn |-> "onDeleteMovie", ids |-> <<selectedIds[i]>>, value |-> NULL]])
    /\ UNCHANGED <<sortConfig, bulkVars, filterVars, currentPage, env, groupVars>>

(***************************************************************************)
(* The component specification.                                            *)
(***************************************************************************)
Init ==
    /\ movies = SeedMovies(UIMovies)
    /\ searchQuery = <<>>
    /\ selectedIds = <<>>
    /\ sortConfig = [key |-> "addedAt", direction |-> "desc"]
    /\ activeBulkMenu = NULL
    /\ pendingBulkValue = NULL
    /\ isDeleteModalOpen = FALSE
    /\ selected3DIds = <<>>
    /\ selected2DIds = <<>>
    /\ selectedStatuses = <<>>
    /\ timeFilter = <<>>
    /\ currentPage = 1
    /\ now \in NowPool
    /\ rowsPerPage = UIRowsPerPage
    /\ lastOp = "init"
    /\ before = [page |-> 1, menu |-> NULL, pending |-> NULL, sort |-> sortConfig]
    /\ arg = NULL
    /\ calls = <<>>
    /\ GroupClosed

\* Values the status filter takes in the component specification.
UIStatusPool == {<<>>, <<"Done">>}

Next ==
    \/ \E v \in UIStatusPool : setSelectedStatuses(v)
    \/ PreviousPage
    \/ NextPage
    \/ onToggleAll
    \/ \E id \in SeqToSet(MapIds(movies)) : onToggleRow(id)
    \/ onClear
    \/ onDelete
    \/ onStatusTrigger
    \/ \E s \in PickPool : onPickStatus(s)
    \/ commitBulkStatusChange
    \/ handleEscape
    \/ onCloseDeleteModal
    \/ confirmDelete

Spec == Init /\ [][Next]_vars

(***************************************************************************)
(* The bulk-commit specification: the selection and the status menu of     *)
(* the component, with the two commit handlers.  commitBulkChannelAdd is    *)
(* defined by the component and called from none of its controls; here it  *)
(* is called, for either relation, in the states the component reaches.    *)
(***************************************************************************)
\* The value staged in the bulk-commit specification.
CommitPickPool == {"Done"}
\* type: '3D' | '2D' (line 202)
ChannelTypes == {"3D", "2D"}

NextChannel ==
    \/ \E id \in SeqToSet(MapIds(movies)) : onToggleRow(id)
    \/ NextPage
    \/ PreviousPage
    \/ onStatusTrigger
    \/ \E s \in CommitPickPool : onPickStatus(s)
    \/ commitBulkStatusChange
    \/ \E type \in ChannelTypes : commitBulkChannelAdd(type)
    \/ handleEscape

SpecChannel == Init /\ [][NextChannel]_vars

(***************************************************************************)
(* The time filter: the Time dropdown hands setTimeFilter the array of the  *)
(* windows ticked, in the order they were ticked.                          *)
(***************************************************************************)
\* The ids of timeOptions (lines 150-154).
TimeWindows == {"today", "7d", "30d"}

\* The arrays of distinct windows, in every order.
MultiTimePool ==
    {<<>>}
      \cup {<<a>> : a \in TimeWindows}
      \cup {w \in [1..2 -> TimeWindows] : w[1] # w[2]}
      \cup {w \in [1..3 -> TimeWindows] : Cardinality({w[1], w[2], w[3]}) = 3}

InitTime ==
    /\ movies \in {SeedMovies(n) : n \in 0..FilterMovies_Max}
    /\ searchQuery = <<>>
    /\ selected3DIds = <<>>
    /\ selected2DIds = <<>>
    /\ selectedStatuses = <<>>
    /\ timeFilter = <<>>
    /\ sortConfig = [key |-> "addedAt", direction |-> "desc"]
    /\ currentPage = 1
    /\ now \in NowPool
    /\ rowsPerPage = RowsPerPage
    /\ selectedIds = <<>>
    /\ activeBulkMenu = NULL
    /\ pendingBulkValue = NULL
    /\ isDeleteModalOpen = FALSE
    /\ lastOp = "init"
    /\ before = [page |-> currentPage, menu |-> NULL, pending |-> NULL,
                 sort |-> sortConfig]
    /\ arg = NULL
    /\ calls = <<>>
    /\ GroupClosed

NextTime ==
    \/ \E v \in MultiTimePool : setTimeFilter(v)
    \/ \E q \in SearchPool : setSearchQuery(q)

SpecTime == InitTime /\ [][NextTime]_vars

(***************************************************************************)
(* The selection under filtering: rows are selected in the component's     *)
(* initial state and each of the five filter controls is then changed.     *)
(***************************************************************************)
\* Values the time filter takes in this specification.
UITimePool == {<<>>, <<"today">>}

NextSelect ==
    \/ \E id \in SeqToSet(MapIds(movies)) : onToggleRow(id)
    \/ NextPage
    \/ PreviousPage
    \/ \E q \in SearchPool : setSearchQuery(q)
    \/ \E v \in Filter3DPool : setSelected3DIds(v)
    \/ \E v \in Filter2DPool : setSelected2DIds(v)
    \/ \E v \in UIStatusPool : setSelectedStatuses(v)
    \/ \E v \in UITimePool : setTimeFilter(v)

SpecSelect == Init /\ [][NextSelect]_vars

(***************************************************************************)
(* GroupSettingsModal: the handlers.  The component renders nothing while   *)
(* isOpen is false (line 65), so every control needs isOpen.               *)
(***************************************************************************)
\* The parent opens the modal for a new group or for an existing one; the
\* effect of lines 30-42 then loads the draft and resets the sort.
openGroupModal(group) ==
    /\ ~isOpen
    /\ isOpen' = TRUE
    /\ existingGroup' = group
    /\ groupName' = (IF group # <<>> THEN group[1].name ELSE <<>>)
    /\ selectedChannelIds' =
           (IF group # <<>> THEN NewSet(group[1].channelIds) ELSE <<>>)
    /\ groupSortConfig' = [key |-> "title", direction |-> "asc"]
    /\ Ran("openGroupModal", <<>>)
    /\ UNCHANGED <<allChannels, nameInputRing, moviesViewVars>>

\* onChange of the name input: setName(e.target.value) (line 144).
setName(v) ==
    /\ isOpen
    /\ v # groupName
    /\ groupName' = v
    /\ Ran("setName", <<>>)
    /\ UNCHANGED <<isOpen, existingGroup, allChannels, selectedChannelIds,
                   groupSortConfig, nameInputRing, moviesViewVars>>

\* onChange of the checkbox of a listed channel (line 193).
onToggleChannel(channelId) ==
    /\ isOpen
    /\ \E i \in 1..Len(allChannels) : allChannels[i].id = channelId
    /\ selectedChannelIds' = handleToggleChannel(selectedChannelIds, channelId)
    /\ RanWith("handleToggleChannel", <<>>, channelId)
    /\ UNCHANGED <<isOpen, existingGroup, allChannels, groupName,
                   groupSortConfig, nameInputRing, moviesViewVars>>

\* Select All, disabled while allChannels is empty (line 155).
onSelectAll ==
    /\ isOpen
    /\ Len(allChannels) # 0
    /\ selectedChannelIds' = handleSelectAll(allChannels)
    /\ Ran("handleSelectAll", <<>>)
    /\ UNCHANGED <<isOpen, existingGroup, allChannels, groupName,
                   groupSortConfig, nameInputRing, moviesViewVars>>

\* Unselect All: setSelectedChannelIds(new Set()) (lines 81-83, 156).
onUnselectAll ==
    /\ isOpen
    /\ Len(allChannels) # 0
    /\ selectedChannelIds' = <<>>
    /\ Ran("handleUnselectAll", <<>>)
    /\ UNCHANGED <<isOpen, existingGroup, allChannels, groupName,
                   groupSortConfig, nameInputRing, moviesViewVars>>

\* onClick of one of the four column buttons (lines 163, 169, 175, 181).
onSortChange(key) ==
    /\ isOpen
    /\ groupSortConfig' = handleSortChange(groupSortConfig, key)
    /\ RanWith("handleSortChange", <<>>, key)
    /\ UNCHANGED <<isOpen, existingGroup, allChannels, groupName,
                   selectedChannelIds, nameInputRing, moviesViewVars>>

\* Save Group: handleSave (lines 92-108).  With a blank name the input is
\* focused and ringed and the handler returns; otherwise onSave and then
\* onClose are called.  The input leaves the document with the modal.
handleSave ==
    /\ isOpen
    /\ IF trim(groupName) = <<>>
       THEN /\ nameInputRing' = TRUE
            /\ Ran("handleSave", <<>>)
            /\ UNCHANGED isOpen
       ELSE /\ isOpen' = ParentOnClose(isOpen)
            /\ nameInputRing' = FALSE
            /\ Ran("handleSave",
                   <<[fn |-> "onSave", ids |-> selectedChannelIds,
                      value |-> SavedGroup(existingGroup, groupName,
                                           selectedChannelIds, now)],
                     [fn |-> "onClose", ids |-> <<>>, value |-> NULL]>>)
    /\ UNCHANGED <<existingGroup, allChannels, groupName, selectedChannelIds,
                   groupSortConfig, moviesViewVars>>

\* The callback of the setTimeout of line 97: the ring is removed.
ringTimeout ==
    /\ nameInputRing
    /\ nameInputRing' = FALSE
    /\ Ran("ringTimeout", <<>>)
    /\ UNCHANGED <<isOpen, existingGroup, allChannels, groupName,
                   selectedChannelIds, groupSortConfig, moviesViewVars>>

\* The controls whose onClick is onClose: the backdrop (line 118), the X of
\* the header (line 131) and Cancel (line 215).
CloseControls == {"backdrop", "x", "cancel"}

onCloseClick(control) ==
    /\ isOpen
    /\ isOpen' = ParentOnClose(isOpen)
    /\ nameInputRing' = FALSE
    /\ RanWith("onCloseClick", <<[fn |-> "onClose", ids |-> <<>>, value |-> NULL]>>,
               control)
    /\ UNCHANGED <<existingGroup, allChannels, groupName, selectedChannelIds,
                   groupSortConfig, moviesViewVars>>

\* The keydown listener of lines 22-28: if (e.key === 'Escape' && isOpen) onClose().
handleEsc ==
    /\ isOpen
    /\ isOpen' = ParentOnClose(isOpen)
    /\ nameInputRing' = FALSE
    /\ Ran("handleEsc", <<[fn |-> "onClose", ids |-> <<>>, value |-> NULL]>>)
    /\ UNCHANGED <<existingGroup, allChannels, groupName, selectedChannelIds,
                   groupSortConfig, moviesViewVars>>

\* The group-settings specification: the movie table is left in its initial
\* state and the modal is opened, edited, saved and closed.
InitGroup ==
    /\ movies = SeedMovies(UIMovies)
    /\ searchQuery = <<>>
    /\ selectedIds = <<>>
    /\ sortConfig = [key |-> "addedAt", direction |-> "desc"]
    /\ activeBulkMenu = NULL
    /\ pendingBulkValue = NULL
    /\ isDeleteModalOpen = FALSE
    /\ selected3DIds = <<>>
    /\ selected2DIds = <<>>
    /\ selectedStatuses = <<>>
    /\ timeFilter = <<>>
    /\ currentPage = 1
    /\ now \in NowPool
    /\ rowsPerPage = UIRowsPerPage
    /\ isOpen = FALSE
    /\ existingGroup = <<>>
    /\ allChannels \in {Channels(n) : n \in 0..MaxChannels}
    /\ groupName = <<>>
    /\ selectedChannelIds = <<>>
    /\ groupSortConfig = [key |-> "title", direction |-> "asc"]
    /\ nameInputRing = FALSE
    /\ lastOp = "init"
    /\ before = [page |-> 1, menu |-> NULL, pending |-> NULL, sort |-> sortConfig]
    /\ arg = NULL
    /\ calls = <<>>

NextGroup ==
    \/ \E g \in ExistingGroupPool : openGroupModal(g)
    \/ \E v \in GroupNamePool : setName(v)
    \/ \E c \in 1..MaxChannels : onToggleChannel(c)
    \/ onSelectAll
    \/ onUnselectAll
    \/ \E k \in GroupSortKeys : onSortChange(k)
    \/ handleSave
    \/ ringTimeout
    \/ \E c \in CloseControls : onCloseClick(c)
    \/ handleEsc

SpecGroup == InitGroup /\ [][NextGroup]_vars

(***************************************************************************)
(* Properties.                                                             *)
(***************************************************************************)
\* C1: a bulk status commit with a staged status v and selection S invokes
\* onBulkUpdateMovieStatus exactly once, with the ids of S and v; afterwards
\* the selection is empty, the menu is closed and nothing is staged.
C1_StatusCommitCallsOnce ==
    [][(lastOp' = "commitBulkStatusChange" /\ pendingBulkValue # NULL) =>
          /\ Len(calls') = 1
          /\ calls'[1].fn = "onBulkUpdateMovieStatus"
          /\ calls'[1].ids = selectedIds
          /\ calls'[1].value = pendingBulkValue
          /\ selectedIds' = <<>>
          /\ activeBulkMenu' = NULL
          /\ pendingBulkValue' = NULL]_vars

\* A commit of "Done" over two selected records has just run.
C1_Witness ==
    /\ lastOp = "commitBulkStatusChange"
    /\ Len(calls) = 1
    /\ Len(calls[1].ids) = 2
    /\ calls[1].value = "Done"
    /\ before.pending = "Done"
    /\ selectedIds = <<>>
    /\ activeBulkMenu = NULL

\* C2, as stated: toggle-all, run while some filtered record is not selected,
\* makes the selection exactly the ids of the records passing the filter.
C2_ToggleAllSelectsFiltered ==
    [][(lastOp' = "handleToggleAll"
           /\ ~(IdSet(filteredAndSortedMovies) \subseteq SeqToSet(selectedIds))) =>
          SeqToSet(selectedIds') = IdSet(filteredAndSortedMovies)]_vars

\* C2, amended: toggle-all, run while the number of selected ids differs from
\* the number of records passing the filter, makes the selection exactly the
\* ids of those records, of every page and in the order of the view; run
\* while the two numbers are equal it empties the selection.
C2_ToggleAllByCount ==
    [][lastOp' = "handleToggleAll" =>
          IF Len(selectedIds) # Len(filteredAndSortedMovies)
          THEN /\ Len(selectedIds') = Len(filteredAndSortedMovies)
               /\ \A k \in 1..Len(selectedIds') :
                      selectedIds'[k] = filteredAndSortedMovies[k].id
          ELSE selectedIds' = <<>>]_vars

\* Select-all has just run over a view longer than a page: every record of
\* the view is selected, those of the other page too.
C2_Witness ==
    /\ lastOp = "handleToggleAll"
    /\ PagerShown
    /\ Len(selectedIds) > Len(paginatedMovies)
    /\ SeqToSet(selectedIds) = IdSet(filteredAndSortedMovies)

\* C3: a record of the source is in the filtered view iff it passes the
\* search text, the 3D set, the 2D set, the status set and the time window
\* all at once, and the view holds nothing else.
C3_FilteredIffAllCriteria ==
    LET view == filteredAndSortedMovies
    IN  /\ \A i \in 1..Len(movies) :
              InSeq(view, movies[i]) <=>
                  /\ matchesSearch(movies[i], searchQuery)
                  /\ matches3D(movies[i], selected3DIds)
                  /\ matches2D(movies[i], selected2DIds)
                  /\ matchesStatus(movies[i], selectedStatuses)
                  /\ matchesTime(movies[i], timeFilter, now)
        /\ \A k \in 1..Len(view) : InSeq(movies, view[k])
        /\ Cardinality(IdSet(view)) = Len(view)

\* All five criteria are active; one record passes them all and another is
\* kept out by the time window alone.
C3_Witness ==
    /\ searchQuery # <<>>
    /\ selected3DIds # <<>>
    /\ selected2DIds # <<>>
    /\ selectedStatuses # <<>>
    /\ timeFilter # <<>>
    /\ Len(filteredAndSortedMovies) > 0
    /\ \E i \in 1..Len(movies) :
          /\ matchesSearch(movies[i], searchQuery)
          /\ matches3D(movies[i], selected3DIds)
          /\ matches2D(movies[i], selected2DIds)
          /\ matchesStatus(movies[i], selectedStatuses)
          /\ ~matchesTime(movies[i], timeFilter, now)
          /\ ~InSeq(filteredAndSortedMovies, movies[i])

\* C4, as stated: the selection is a subset of the ids of the records
\* passing the filter.
C4_SelectionWithinFiltered ==
    SeqToSet(selectedIds) \subseteq IdSet(filteredAndSortedMovies)

\* C4, amended: every id a step adds to the selection is the id of a record
\* passing the filter at that step; ids already selected are not pruned.
C4_AddedIdsPassFilter ==
    [][(SeqToSet(selectedIds') \ SeqToSet(selectedIds))
          \subseteq IdSet(filteredAndSortedMovies)]_vars

\* Select-all has just run under a status filter that hides some record.
C4_Witness ==
    /\ lastOp = "handleToggleAll"
    /\ selectedStatuses # <<>>
    /\ selectedIds # <<>>
    /\ Len(filteredAndSortedMovies) < Len(movies)
    /\ SeqToSet(selectedIds) = IdSet(filteredAndSortedMovies)

\* C5: nothing is staged while no bulk menu is open, and every step that
\* closes or opens a menu leaves nothing staged.
C5_PendingClearedWithMenu ==
    [][/\ activeBulkMenu' = NULL => pendingBulkValue' = NULL
       /\ activeBulkMenu' # activeBulkMenu => pendingBulkValue' = NULL]_vars

\* The trigger was clicked again while "Playlist" was staged: the menu is
\* closed and nothing is staged.
C5_Witness ==
    /\ lastOp = "onStatusTrigger"
    /\ before.menu = "status"
    /\ before.pending = "Playlist"
    /\ activeBulkMenu = NULL
    /\ pendingBulkValue = NULL

\* C6: Escape with a bulk menu open closes the menu, clears the staged value
\* and keeps the selection; Escape with no menu open clears the selection and
\* leaves the menu state alone.
C6_EscapeOneLevel ==
    [][lastOp' = "handleEscape" =>
          IF activeBulkMenu # NULL
          THEN /\ activeBulkMenu' = NULL
               /\ pendingBulkValue' = NULL
               /\ selectedIds' = selectedIds
          ELSE /\ selectedIds' = <<>>
               /\ activeBulkMenu' = activeBulkMenu
               /\ pendingBulkValue' = pendingBulkValue]_vars

\* Escape has just closed a menu with a value staged, over two selected rows.
C6_Witness ==
    /\ lastOp = "handleEscape"
    /\ before.menu = "status"
    /\ before.pending # NULL
    /\ activeBulkMenu = NULL
    /\ pendingBulkValue = NULL
    /\ Len(selectedIds) = 2

\* C7: a step that changes the search text or a filter criterion leaves the
\* page at 1; a step that changes only the sort configuration keeps the page.
C7_PageResetOnFilterOnly ==
    [][/\ filterVars' # filterVars => currentPage' = 1
       /\ (sortConfig' # sortConfig /\ filterVars' = filterVars) =>
              currentPage' = currentPage]_vars

\* The search text has just changed while page 2 was shown.
C7_Witness ==
    /\ lastOp = "setSearchQuery"
    /\ before.page = 2
    /\ currentPage = 1

\* C8: totalPages is ceil(totalItems / itemsPerPage) and never below 1.
C8_TotalPagesAtLeastOne ==
    /\ totalPages >= 1
    /\ totalItems > 0 =>
          /\ totalPages * itemsPerPage >= totalItems
          /\ (totalPages - 1) * itemsPerPage < totalItems

\* C9: the displayed page is the records at positions [(p-1)*pageSize,
\* min(p*pageSize, totalItems)) of the view; pages 1..totalPages laid end to
\* end are the view; a page beyond the last is empty.
RECURSIVE PagesUpTo(_, _)
PagesUpTo(view, n) ==
    IF n <= 0 THEN <<>> ELSE PagesUpTo(view, n - 1) \o PageOf(view, n)

C9_PagesPartitionView ==
    LET view == filteredAndSortedMovies
        lo == (currentPage - 1) * itemsPerPage
        top == currentPage * itemsPerPage
        hi == IF top < totalItems THEN top ELSE totalItems
    IN  /\ Len(paginatedMovies) = (IF hi > lo THEN hi - lo ELSE 0)
        /\ \A k \in 1..Len(paginatedMovies) : paginatedMovies[k] = view[lo + k]
        /\ PagesUpTo(view, totalPages) = view
        /\ currentPage > totalPages => paginatedMovies = <<>>

\* Five records pass the filter and the last page holds the fifth alone.
C9_Witness ==
    /\ totalItems = 2 * itemsPerPage + 1
    /\ totalPages = 3
    /\ currentPage = 3
    /\ paginatedMovies = <<filteredAndSortedMovies[totalItems]>>

\* C10: under status sort, in either direction, no record with a status
\* outside STATUS_OPTIONS comes before a record with a status in it.
C10_UnknownStatusLast ==
    sortConfig.key = "status" =>
        \A i, j \in 1..Len(filteredAndSortedMovies) :
            (/\ ~InSeq(STATUS_OPTIONS, filteredAndSortedMovies[i].status)
             /\ InSeq(STATUS_OPTIONS, filteredAndSortedMovies[j].status)) => j < i

\* The position of a listed status in STATUS_OPTIONS, counted from 1.
PositionOf(st) == CHOOSE p \in 1..Len(STATUS_OPTIONS) : STATUS_OPTIONS[p] = st

Listed(st) == \E p \in 1..Len(STATUS_OPTIONS) : STATUS_OPTIONS[p] = st

\* C11: ascending status sort orders two records by the positions of their
\* statuses in STATUS_OPTIONS, a status not listed standing above every
\* listed one and level with another not listed; and for every sort key the
\* descending comparison of a pair is the negation of the ascending one.
C11_StatusByRankNegated ==
    \A i, j \in 1..Len(movies) :
        LET a == movies[i]
            b == movies[j]
            asc == Compare(a, b, Config("status", "asc"))
        IN  /\ (Listed(a.status) /\ Listed(b.status)) =>
                  asc = (IF PositionOf(a.status) < PositionOf(b.status) THEN -1
                         ELSE IF PositionOf(a.status) > PositionOf(b.status) THEN 1
                         ELSE 0)
            /\ (~Listed(a.status) /\ Listed(b.status)) => asc = 1
            /\ (Listed(a.status) /\ ~Listed(b.status)) => asc = -1
            /\ (~Listed(a.status) /\ ~Listed(b.status)) => asc = 0
            /\ \A k \in SortKeys :
                  Compare(a, b, Config(k, "desc")) = 0 - Compare(a, b, Config(k, "asc"))

\* The Status header has just set a descending status sort over a view with
\* "Done", "Playlist" and a status not listed: the flipped rank puts the
\* record not listed first and "Done" (position 7) before "Playlist" (1).
C11_Witness ==
    /\ lastOp = "handleSort"
    /\ sortConfig = Config("status", "desc")
    /\ Len(filteredAndSortedMovies) >= 3
    /\ ~Listed(filteredAndSortedMovies[1].status)
    /\ \E p, q \in 1..Len(filteredAndSortedMovies) :
          /\ p < q
          /\ filteredAndSortedMovies[p].status = "Done"
          /\ filteredAndSortedMovies[q].status = "Playlist"

\* a <= b under a sort configuration: the comparator does not put a after b.
NotAfter(a, b, cfg) == Compare(a, b, cfg) <= 0

WithEmptyNote(m) == [m EXCEPT !.note = << <<>> >>]

NoteMissing(m) == m.note = <<>>

C14_SortToggleTwoState ==
    [][lastOp' = "handleSort" =>
          IF sortConfig'.key = sortConfig.key
          THEN sortConfig'.direction =
                   (IF sortConfig.direction = "asc" THEN "desc" ELSE "asc")
          ELSE sortConfig'.direction = "asc"]_vars

\* The Movie header was clicked while the view was sorted by another key,
\* descending: the view is now sorted by name, ascending.
C14_Witness ==
    /\ lastOp = "handleSort"
    /\ before.sort.key # "name"
    /\ before.sort.direction = "desc"
    /\ sortConfig = Config("name", "asc")

\* The index in ms of the record with identifier id.
IndexOfId(ms, id) == CHOOSE i \in 1..Len(ms) : ms[i].id = id

\* C15: confirming the deletion with selection S leaves in the record source
\* exactly the records whose ids are not in S, unchanged and in their order,
\* invokes onDeleteMovie once for each id of S and for nothing else, empties
\* the selection and closes the confirmation.
C15_ConfirmDeleteRemovesSelection ==
    [][lastOp' = "confirmDelete" =>
          /\ \A i \in 1..Len(movies) :
                InSeq(movies', movies[i]) <=> ~InSeq(selectedIds, movies[i].id)
          /\ \A k \in 1..Len(movies') : InSeq(movies, movies'[k])
          /\ \A k, l \in 1..Len(movies') :
                k < l => IndexOfId(movies, movies'[k].id)
                             < IndexOfId(movies, movies'[l].id)
          /\ Len(calls') = Len(selectedIds)
          /\ \A k \in 1..Len(calls') :
                /\ calls'[k].fn = "onDeleteMovie"
                /\ calls'[k].ids = <<selectedIds[k]>>
          /\ \A id \in SeqToSet(selectedIds) :
                Cardinality({k \in 1..Len(calls') : calls'[k].ids = <<id>>}) = 1
          /\ selectedIds' = <<>>
          /\ isDeleteModalOpen' = FALSE]_vars

\* A deletion of one selected record has just been confirmed: one call was
\* made, the other records are still in the source, nothing is selected and
\* the confirmation is closed.
C15_Witness ==
    /\ lastOp = "confirmDelete"
    /\ Len(calls) = 1
    /\ calls[1].fn = "onDeleteMovie"
    /\ Len(movies) = UIMovies - 1
    /\ ~InSeq(MapIds(movies), calls[1].ids[1])
    /\ selectedIds = <<>>
    /\ ~isDeleteModalOpen

\* C16: cancelling the delete confirmation closes it and changes nothing
\* else: the record source, the selection, the bulk menu, the staged value,
\* the filters, the sort and the page stay, and no callback is invoked.
C16_CancelDeleteOnlyCloses ==
    [][lastOp' = "onCloseDeleteModal" =>
          /\ isDeleteModalOpen
          /\ isDeleteModalOpen' = FALSE
          /\ movies' = movies
          /\ selectedIds' = selectedIds
          /\ activeBulkMenu' = activeBulkMenu
          /\ pendingBulkValue' = pendingBulkValue
          /\ filterVars' = filterVars
          /\ sortConfig' = sortConfig
          /\ currentPage' = currentPage
          /\ calls' = <<>>]_vars

\* The confirmation, opened over a selection with the status menu open and a
\* value staged, has just been cancelled: all of it is still there.
C16_Witness ==
    /\ lastOp = "onCloseDeleteModal"
    /\ ~isDeleteModalOpen
    /\ Len(selectedIds) = 2
    /\ before.menu = "status"
    /\ activeBulkMenu = "status"
    /\ before.pending = "Done"
    /\ pendingBulkValue = "Done"
    /\ Len(movies) = UIMovies
    /\ calls = <<>>

\* C17: a bulk channel commit, for either relation, with a staged value v and
\* selection S invokes onUpdateMovie once per id of S and for no other id,
\* each call carrying the relation's field with v, in the order the ids were
\* selected; afterwards the selection is empty, the menu is closed and
\* nothing is staged.
C17_ChannelCommitPerRecord ==
    [][(lastOp' = "commitBulkChannelAdd" /\ pendingBulkValue # NULL) =>
          /\ Len(calls') = Len(selectedIds)
          /\ \A k \in 1..Len(calls') :
                /\ calls'[k].fn = "onUpdateMovie"
                /\ calls'[k].ids = <<selectedIds[k]>>
                /\ calls'[k].value =
                       <<(IF arg' = "3D" THEN "channel3DIds" ELSE "channel2DIds"),
                         <<pendingBulkValue>> >>
          /\ \A id \in IdSet(movies) :
                Cardinality({k \in 1..Len(calls') : calls'[k].ids = <<id>>})
                    = (IF InSeq(selectedIds, id) THEN 1 ELSE 0)
          /\ selectedIds' = <<>>
          /\ activeBulkMenu' = NULL
          /\ pendingBulkValue' = NULL]_vars

\* A 2D commit has just run over a selection made in the order 2, 1: two
\* calls were made, for record 2 and then for record 1.
C17_Witness ==
    /\ lastOp = "commitBulkChannelAdd"
    /\ arg = "2D"
    /\ before.pending = "Done"
    /\ Len(calls) = 2
    /\ calls[1].ids = <<2>>
    /\ calls[2].ids = <<1>>
    /\ calls[1].value = calls[2].value
    /\ selectedIds = <<>>
    /\ activeBulkMenu = NULL
    /\ pendingBulkValue = NULL

\* C18: a commit handler run while nothing is staged invokes no callback and
\* leaves the selection, the menu, the staged value and the records as they
\* were; whenever a commit changes any of them a value was staged.
C18_CommitWithoutValueNoOp ==
    [][lastOp' \in {"commitBulkStatusChange", "commitBulkChannelAdd"} =>
          /\ pendingBulkValue = NULL =>
                /\ calls' = <<>>
                /\ selectedIds' = selectedIds
                /\ activeBulkMenu' = activeBulkMenu
                /\ pendingBulkValue' = NULL
                /\ movies' = movies
          /\ pendingBulkValue # NULL =>
                /\ Len(calls') >= (IF selectedIds = <<>> THEN 0 ELSE 1)
                /\ activeBulkMenu' = NULL]_vars

\* The status commit handler has just run over a selection with the menu open
\* and nothing staged: the menu is still open and no callback was invoked.
C18_Witness ==
    /\ lastOp = "commitBulkStatusChange"
    /\ before.menu = "status"
    /\ before.pending = NULL
    /\ activeBulkMenu = "status"
    /\ pendingBulkValue = NULL
    /\ selectedIds # <<>>
    /\ calls = <<>>

C20_PickStagesOneValue ==
    [][lastOp' = "onPickStatus" =>
          /\ pendingBulkValue' = arg'
          /\ activeBulkMenu # NULL
          /\ activeBulkMenu' = activeBulkMenu
          /\ selectedIds' = selectedIds
          /\ movies' = movies
          /\ calls' = <<>>]_vars

\* "Playlist" was clicked while "Done" was staged: "Playlist" alone is staged,
\* the menu is open, the selection and the records are untouched.
C20_Witness ==
    /\ lastOp = "onPickStatus"
    /\ before.pending = "Done"
    /\ arg = "Playlist"
    /\ pendingBulkValue = "Playlist"
    /\ activeBulkMenu = "status"
    /\ selectedIds # <<>>
    /\ movies = SeedMovies(UIMovies)
    /\ calls = <<>>

\* C21: toggle-all run while the 'is all selected' flag is true empties the
\* selection; run over a non-empty filtered view while the flag is false it
\* makes the flag true, so that a second toggle-all right after it leaves
\* the selection empty.
C21_ToggleAllFlip ==
    [][lastOp' = "handleToggleAll" =>
          LET flag == isAllSelected
              view == filteredAndSortedMovies
          IN  /\ flag => selectedIds' = <<>>
              /\ (~flag /\ Len(view) > 0) =>
                    \* the inputs of the view are as before the step, so the
                    \* view after it is the view before it
                    /\ movies' = movies
                    /\ filterVars' = filterVars
                    /\ sortConfig' = sortConfig
                    /\ env' = env
                    \* the flag after the step
                    /\ Len(selectedIds') = Len(view)
                    /\ SeqToSet(selectedIds') = IdSet(view)
                    /\ handleToggleAll(selectedIds', view) = <<>>]_vars

\* Toggle-all has just emptied the selection over a view showing the whole
\* source: the flag was true, every record being selected.
C21_Witness ==
    /\ lastOp = "handleToggleAll"
    /\ selectedIds = <<>>
    /\ Len(filteredAndSortedMovies) = UIMovies
    /\ movies = SeedMovies(UIMovies)

\* C22: a row toggle on id adds id to the selection when it is absent and
\* removes it when present, the other selected ids staying; toggling any id
\* of the source twice, whether or not its record is in the filtered view or
\* on the page, gives back the selection set.
C22_ToggleRowInvolution ==
    [][/\ lastOp' = "handleToggleRow" =>
             /\ arg' \notin SeqToSet(selectedIds) =>
                    SeqToSet(selectedIds') = SeqToSet(selectedIds) \cup {arg'}
             /\ arg' \in SeqToSet(selectedIds) =>
                    SeqToSet(selectedIds') = SeqToSet(selectedIds) \ {arg'}
             /\ Cardinality(SeqToSet(selectedIds')) = Len(selectedIds')
       /\ \A id \in IdSet(movies) :
             LET once == handleToggleRow(selectedIds, id)
             IN  /\ (id \in SeqToSet(once)) <=> (id \notin SeqToSet(selectedIds))
                 /\ SeqToSet(once) \ {id} = SeqToSet(selectedIds) \ {id}
                 /\ SeqToSet(handleToggleRow(once, id)) = SeqToSet(selectedIds)]_vars

\* Row 2 has just been clicked while rows 1 and 2 were selected: row 1 alone
\* is selected.
C22_Witness ==
    /\ lastOp = "handleToggleRow"
    /\ arg = 2
    /\ selectedIds = <<1>>

\* C23: a step that changes the search text or a filter criterion leaves the
\* selection as it was, ids of records the new criteria hide included.
C23_FilterChangeKeepsSelection ==
    [][filterVars' # filterVars => selectedIds' = selectedIds]_vars

\* The status filter has just been set while a record it hides was selected:
\* the record is out of the view and its id is still selected.
C23_Witness ==
    /\ lastOp = "setSelectedStatuses"
    /\ selectedStatuses # <<>>
    /\ \E k \in 1..Len(selectedIds) :
          selectedIds[k] \notin IdSet(filteredAndSortedMovies)

\* The records of the source passing the given criteria, in source order.
Passing(q, s3, s2, st, tf) == FilterMovies(movies, q, s3, s2, st, tf, now)

\* C24: with every criterion empty the filtered view holds every record of
\* the source; and whatever the criteria are, every record passing them also
\* passes them with any one criterion emptied.
C24_EmptyCriterionPasses ==
    LET cur == Passing(searchQuery, selected3DIds, selected2DIds,
                       selectedStatuses, timeFilter)
    IN  /\ (/\ searchQuery = <<>>
            /\ selected3DIds = <<>>
            /\ selected2DIds = <<>>
            /\ selectedStatuses = <<>>
            /\ timeFilter = <<>>) =>
               /\ cur = movies
               /\ IdSet(filteredAndSortedMovies) = IdSet(movies)
               /\ Len(filteredAndSortedMovies) = Len(movies)
        /\ IdSet(cur) \subseteq IdSet(Passing(<<>>, selected3DIds, selected2DIds,
                                               selectedStatuses, timeFilter))
        /\ IdSet(cur) \subseteq IdSet(Passing(searchQuery, <<>>, selected2DIds,
                                               selectedStatuses, timeFilter))
        /\ IdSet(cur) \subseteq IdSet(Passing(searchQuery, selected3DIds, <<>>,
                                               selectedStatuses, timeFilter))
        /\ IdSet(cur) \subseteq IdSet(Passing(searchQuery, selected3DIds,
                                               selected2DIds, <<>>, timeFilter))
        /\ IdSet(cur) \subseteq IdSet(Passing(searchQuery, selected3DIds,
                                               selected2DIds, selectedStatuses, <<>>))

\* The status set, the last criterion in force, has just been emptied: the
\* view holds all seven records of the source.
C24_Witness ==
    /\ lastOp = "setSelectedStatuses"
    /\ searchQuery = <<>>
    /\ selected3DIds = <<>>
    /\ selected2DIds = <<>>
    /\ selectedStatuses = <<>>
    /\ timeFilter = <<>>
    /\ Len(movies) = FilterMovies_Max
    /\ Len(filteredAndSortedMovies) = FilterMovies_Max

\* The identifiers a record holds on each axis: those of the array when the
\* record has one, the legacy single identifier otherwise.
Ids3DOf(m) ==
    IF m.channel3DIds # <<>> THEN SeqToSet(m.channel3DIds[1])
    ELSE IF m.channel3DId # "" THEN {m.channel3DId} ELSE {}

Ids2DOf(m) ==
    IF m.channel2DIds # <<>> THEN SeqToSet(m.channel2DIds[1])
    ELSE IF m.channel2DId # "" THEN {m.channel2DId} ELSE {}

\* The record passes the search, status and time criteria in force.
PassesOthers(m) ==
    /\ matchesSearch(m, searchQuery)
    /\ matchesStatus(m, selectedStatuses)
    /\ matchesTime(m, timeFilter, now)

\* C25: under a non-empty 3D (2D) filter a record passes that criterion iff
\* one at least of its 3D (2D) identifiers is in the selected set; with the
\* other criteria met it is in the view exactly then, whether or not its
\* other identifiers are selected.
C25_RelationAnyOf ==
    \A i \in 1..Len(movies) :
        LET m == movies[i]
            hit3D == Ids3DOf(m) \cap SeqToSet(selected3DIds) # {}
            hit2D == Ids2DOf(m) \cap SeqToSet(selected2DIds) # {}
        IN  /\ selected3DIds # <<>> => (matches3D(m, selected3DIds) <=> hit3D)
            /\ selected2DIds # <<>> => (matches2D(m, selected2DIds) <=> hit2D)
            /\ (selected3DIds # <<>> /\ selected2DIds # <<>> /\ PassesOthers(m)) =>
                  (InSeq(filteredAndSortedMovies, m) <=> (hit3D /\ hit2D))
            /\ (selected3DIds # <<>> /\ selected2DIds = <<>> /\ PassesOthers(m)) =>
                  (InSeq(filteredAndSortedMovies, m) <=> hit3D)

\* The 3D filter has just been set to c3, c1: the record with the channels
\* c2, c1 is in the view although c2 is not selected.
C25_Witness ==
    /\ lastOp = "setSelected3DIds"
    /\ selected3DIds = <<"c3", "c1">>
    /\ \E k \in 1..Len(filteredAndSortedMovies) :
          /\ Ids3DOf(filteredAndSortedMovies[k]) = {"c1", "c2"}
          /\ ~(Ids3DOf(filteredAndSortedMovies[k]) \subseteq SeqToSet(selected3DIds))

\* C26: a record holding no identifier on an axis is never in the view under
\* a non-empty filter on that axis, and passes the axis's criterion when the
\* filter on it is empty.
C26_NoIdsNeverMatch ==
    \A i \in 1..Len(movies) :
        LET m == movies[i]
        IN  /\ Ids3DOf(m) = {} =>
                  /\ selected3DIds # <<>> =>
                         /\ ~matches3D(m, selected3DIds)
                         /\ ~InSeq(filteredAndSortedMovies, m)
                  /\ selected3DIds = <<>> => matches3D(m, selected3DIds)
            /\ Ids2DOf(m) = {} =>
                  /\ selected2DIds # <<>> =>
                         /\ ~matches2D(m, selected2DIds)
                         /\ ~InSeq(filteredAndSortedMovies, m)
                  /\ selected2DIds = <<>> => matches2D(m, selected2DIds)

\* The 3D filter, the only criterion in force, has just been set: a record
\* with no 3D channel is out of the view, one with a selected channel is in.
C26_Witness ==
    /\ lastOp = "setSelected3DIds"
    /\ selected3DIds # <<>>
    /\ searchQuery = <<>>
    /\ selected2DIds = <<>>
    /\ selectedStatuses = <<>>
    /\ timeFilter = <<>>
    /\ Len(filteredAndSortedMovies) > 0
    /\ \E i \in 1..Len(movies) :
          /\ Ids3DOf(movies[i]) = {}
          /\ ~InSeq(filteredAndSortedMovies, movies[i])

\* The start of the window the time filter selects, for the clock value t:
\* 00:00 of the day of t, t minus 7 days, t minus 30 days.
WindowStart(tf, t) ==
    IF InSeq(tf, "today") THEN (t \div 24) * 24
    ELSE IF InSeq(tf, "7d") THEN t - 7 * 24
    ELSE t - 30 * 24

\* C27: with a time window selected, a record passes the time criterion iff
\* its addedAt is at or after the start of the window.
C27_TimeWindowFromStart ==
    timeFilter # <<>> =>
        \A i \in 1..Len(movies) :
            matchesTime(movies[i], timeFilter, now)
                <=> movies[i].addedAt >= WindowStart(timeFilter, now)

\* The number of records of the source passing the given criteria.
Count(q, s3, s2, st, tf) == Len(Passing(q, s3, s2, st, tf))

Least(x, y) == IF x < y THEN x ELSE y

\* C28: for the criteria in force taken two dimensions at a time, the number
\* of records passing both is at most the smaller of the numbers passing
\* each alone; and the number passing all five is at most the number passing
\* any pair of them.
C28_FilterMonotone ==
    LET q == searchQuery
        s3 == selected3DIds
        s2 == selected2DIds
        st == selectedStatuses
        tf == timeFilter
        e == <<>>
        all == Count(q, s3, s2, st, tf)
        pairs == {<<Count(q, s3, e, e, e), Count(q, e, e, e, e), Count(e, s3, e, e, e)>>,
                  <<Count(q, e, s2, e, e), Count(q, e, e, e, e), Count(e, e, s2, e, e)>>,
                  <<Count(q, e, e, st, e), Count(q, e, e, e, e), Count(e, e, e, st, e)>>,
                  <<Count(q, e, e, e, tf), Count(q, e, e, e, e), Count(e, e, e, e, tf)>>,
                  <<Count(e, s3, s2, e, e), Count(e, s3, e, e, e), Count(e, e, s2, e, e)>>,
                  <<Count(e, s3, e, st, e), Count(e, s3, e, e, e), Count(e, e, e, st, e)>>,
                  <<Count(e, s3, e, e, tf), Count(e, s3, e, e, e), Count(e, e, e, e, tf)>>,
                  <<Count(e, e, s2, st, e), Count(e, e, s2, e, e), Count(e, e, e, st, e)>>,
                  <<Count(e, e, s2, e, tf), Count(e, e, s2, e, e), Count(e, e, e, e, tf)>>,
                  <<Count(e, e, e, st, tf), Count(e, e, e, st, e), Count(e, e, e, e, tf)>>}
    IN  \A p \in pairs : p[1] <= Least(p[2], p[3]) /\ all <= p[1]

\* The 2D filter has just been added to the status filter: three records pass
\* the status set alone, more pass the 2D set alone, and fewer than three pass
\* both.
C28_Witness ==
    /\ lastOp = "setSelected2DIds"
    /\ selected2DIds # <<>>
    /\ selectedStatuses # <<>>
    /\ searchQuery = <<>>
    /\ selected3DIds = <<>>
    /\ timeFilter = <<>>
    /\ Len(filteredAndSortedMovies) > 0
    /\ Len(filteredAndSortedMovies) < Count(<<>>, <<>>, <<>>, selectedStatuses, <<>>)
    /\ Len(filteredAndSortedMovies) < Count(<<>>, <<>>, selected2DIds, <<>>, <<>>)

\* The operations that only recompute the view: the five filter controls, the
\* sort headers and the pager.
ViewOps ==
    {"setSearchQuery", "setSelected3DIds", "setSelected2DIds",
     "setSelectedStatuses", "setTimeFilter", "handleSort", "PreviousPage",
     "NextPage"}

C30_PageInRange ==
    /\ 1 <= currentPage
    /\ currentPage <= (IF totalPages > 1 THEN totalPages ELSE 1)
    /\ filteredAndSortedMovies # <<>> => paginatedMovies # <<>>

\* C31: whenever the selection is empty the bulk menu is closed and no value
\* is staged, so that no menu reappears, with an earlier staged value, when
\* rows are selected again.
C31_EmptySelectionClosesMenu ==
    selectedIds = <<>> => (activeBulkMenu = NULL /\ pendingBulkValue = NULL)

\* C32: whenever the header checkbox shows checked, the selection is exactly
\* the set of ids of the records passing the filter.
C32_AllSelectedMeansFiltered ==
    isAllSelected => SeqToSet(selectedIds) = IdSet(filteredAndSortedMovies)

\* C33: while the delete confirmation stays open no step changes the
\* selection, closes the bulk menu or drops the staged value, an Escape
\* keystroke included; the records deleted on confirm are then those selected
\* when the confirmation opened.
C33_DeleteConfirmationBlocks ==
    [][(isDeleteModalOpen /\ isDeleteModalOpen') =>
          /\ selectedIds' = selectedIds
          /\ activeBulkMenu' = activeBulkMenu
          /\ pendingBulkValue' = pendingBulkValue]_vars

\* C34: the status commit runs only while a record is selected, and
\* onBulkUpdateMovieStatus is never handed an empty list of ids.
C34_StatusCommitNeverEmpty ==
    [][lastOp' = "commitBulkStatusChange" =>
          /\ selectedIds # <<>>
          /\ \A k \in 1..Len(calls') :
                calls'[k].fn = "onBulkUpdateMovieStatus" => calls'[k].ids # <<>>]_vars

\* A commit over one selected record of the two has just run: the callback
\* was handed that one id.
C34_Witness ==
    /\ lastOp = "commitBulkStatusChange"
    /\ Len(calls) = 1
    /\ calls[1].fn = "onBulkUpdateMovieStatus"
    /\ Len(calls[1].ids) = 1
    /\ Len(movies) = UIMovies

\* C35: a bulk channel commit on one axis with the staged value v makes the
\* list of that axis, of every selected record, exactly <<v>>, whatever it
\* held; it leaves the other axis, the id, name, status, note and addedAt of
\* those records, and every unselected record, as they were, and neither
\* adds, removes nor moves a record.
C35_ChannelCommitReplacesAxis ==
    [][(lastOp' = "commitBulkChannelAdd" /\ pendingBulkValue # NULL) =>
          /\ Len(movies') = Len(movies)
          /\ \A i \in 1..Len(movies) :
                LET m == movies[i]
                    n == movies'[i]
                IN  IF InSeq(selectedIds, m.id)
                    THEN /\ arg' = "3D" =>
                               /\ n.channel3DIds = << <<pendingBulkValue>> >>
                               /\ Ids3DOf(n) = {pendingBulkValue}
                               /\ n.channel2DIds = m.channel2DIds
                               /\ n.channel2DId = m.channel2DId
                         /\ arg' = "2D" =>
                               /\ n.channel2DIds = << <<pendingBulkValue>> >>
                               /\ Ids2DOf(n) = {pendingBulkValue}
                               /\ n.channel3DIds = m.channel3DIds
                               /\ n.channel3DId = m.channel3DId
                         /\ n.id = m.id
                         /\ n.name = m.name
                         /\ n.status = m.status
                         /\ n.note = m.note
                         /\ n.addedAt = m.addedAt
                    ELSE n = m]_vars

\* A 3D commit has just run over record 1 alone, which had the 3D channel c1:
\* its 3D list is now the staged value alone, its 2D channel is the one it
\* had, and record 2 is as it was.
C35_Witness ==
    /\ lastOp = "commitBulkChannelAdd"
    /\ arg = "3D"
    /\ Len(calls) = 1
    /\ calls[1].ids = <<1>>
    /\ Len(movies) = UIMovies
    /\ SeedMovie(1).channel3DIds = << <<"c1">> >>
    /\ movies[1].channel3DIds = << <<before.pending>> >>
    /\ movies[1].channel2DId = SeedMovie(1).channel2DId
    /\ movies[2] = SeedMovie(2)

\* The window that takes precedence among those selected: today over the
\* last 7 days over the last 30 days.
Applied(tf) ==
    IF InSeq(tf, "today") THEN "today"
    ELSE IF InSeq(tf, "7d") THEN "7d" ELSE "30d"

\* C36: with several windows selected a record passes the time criterion iff
\* it passes the one window that takes precedence, and the filtered view is
\* the same for every order of the same windows.
C36_TimeWindowPrecedence ==
    Len(timeFilter) > 1 =>
        /\ \A i \in 1..Len(movies) :
              matchesTime(movies[i], timeFilter, now)
                  <=> matchesTime(movies[i], <<Applied(timeFilter)>>, now)
        /\ \A w \in MultiTimePool :
              SeqToSet(w) = SeqToSet(timeFilter) =>
                  Passing(searchQuery, selected3DIds, selected2DIds,
                          selectedStatuses, w)
                      = Passing(searchQuery, selected3DIds, selected2DIds,
                                selectedStatuses, timeFilter)

\* The windows 30d and then today have just been set: the view holds the
\* records of today, fewer than the last 30 days alone would give.
C36_Witness ==
    /\ lastOp = "setTimeFilter"
    /\ timeFilter = <<"30d", "today">>
    /\ searchQuery = <<>>
    /\ Len(filteredAndSortedMovies) > 0
    /\ Len(filteredAndSortedMovies) < Count(<<>>, <<>>, <<>>, <<>>, <<"30d">>)
    /\ filteredAndSortedMovies
           = SortMovies(Passing(<<>>, <<>>, <<>>, <<>>, <<"today">>), sortConfig)

\* C37: in the channel list of the group settings, a click on the column the
\* list is sorted by toggles the direction, and a click on another column
\* sorts by it in ascending direction.
C37_GroupSortNewKeyAscending ==
    [][lastOp' = "handleSortChange" =>
          /\ groupSortConfig'.key = arg'
          /\ IF arg' = groupSortConfig.key
             THEN groupSortConfig'.direction # groupSortConfig.direction
             ELSE groupSortConfig'.direction = "asc"]_vars

\* The name is empty or made of white space only.
Blank(nm) == \A k \in 1..Len(nm) : IsSpace(nm[k])

\* t is nm without the white space at its two ends.
Trimmed(nm, t) ==
    /\ t # <<>>
    /\ ~IsSpace(t[1])
    /\ ~IsSpace(t[Len(t)])
    /\ \E i \in 0..(Len(nm) - Len(t)) :
          /\ SubSeq(nm, i + 1, i + Len(t)) = t
          /\ \A k \in 1..i : IsSpace(nm[k])
          /\ \A k \in (i + Len(t) + 1)..Len(nm) : IsSpace(nm[k])

\* C38: Save Group with a blank name calls neither onSave nor onClose and
\* leaves the modal open with its draft; with any other name it calls onSave
\* once, with the trimmed name and the channel ids checked, then onClose, and
\* the modal closes.  Cancel, the X, the backdrop and Escape call onClose and
\* never onSave.
C38_SaveValidatesName ==
    [][/\ lastOp' = "handleSave" =>
             IF Blank(groupName)
             THEN /\ calls' = <<>>
                  /\ isOpen'
                  /\ groupName' = groupName
                  /\ selectedChannelIds' = selectedChannelIds
                  /\ existingGroup' = existingGroup
             ELSE /\ Len(calls') = 2
                  /\ calls'[1].fn = "onSave"
                  /\ calls'[2].fn = "onClose"
                  /\ Trimmed(groupName, calls'[1].value.name)
                  /\ SeqToSet(calls'[1].value.channelIds) = SeqToSet(selectedChannelIds)
                  /\ Len(calls'[1].value.channelIds)
                         = Cardinality(SeqToSet(selectedChannelIds))
                  /\ ~isOpen'
       /\ lastOp' \in {"onCloseClick", "handleEsc"} =>
             /\ \A k \in 1..Len(calls') : calls'[k].fn # "onSave"
             /\ \E k \in 1..Len(calls') : calls'[k].fn = "onClose"
             /\ ~isOpen']_vars

\* ' A ' was typed with both channels checked and Save Group was pressed: the
\* group was saved under 'A' with the two ids, and the modal is closed.
C38_Witness ==
    /\ lastOp = "handleSave"
    /\ groupName = <<32, 65, 32>>
    /\ Len(calls) = 2
    /\ calls[1].value.name = <<65>>
    /\ Len(calls[1].value.channelIds) = MaxChannels
    /\ ~isOpen

====
